---------------------------- MODULE Spec2Model ----------------------------
(***************************************************************************)
(* A model of the MCP tool servers of mcp-noob-toolkit (Gmail, Google      *)
(* Calendar, Google Drive, Jira, Video).  Every tool handler is one action *)
(* that runs the handler from entry to return, including the helper and    *)
(* the vendor calls it makes.  The vendor services (mailbox history,       *)
(* labels, Drive parents, calendars, the Jira issue) are the environment:  *)
(* their answers and their failures are drawn from small sets.             *)
(* Three parts follow the code step by step instead: the pagination loop   *)
(* of GmailHelper.get_history, the asyncio event loop that runs the tool   *)
(* handlers of a server process, and the agent clients' MCP connection.    *)
(***************************************************************************)
EXTENDS Integers, Sequences, FiniteSets, TLC

VARIABLES
    started,        \* server name -> main() has reached uvicorn.run
    service,        \* helper name -> helper.service is set (authenticated)
    mailboxHead,    \* Gmail: the mailbox's current historyId (records 1..head)
    historyFile,    \* gmail_mcp_tool/last_history_id.txt
    labels,         \* Gmail: label id -> label resource
    parents,        \* Drive: the parent folders of the one modelled file
    calendars,      \* Calendar: the calendar ids that exist
    jiraIssue,      \* Jira: the fields of the one modelled issue
    op,             \* name of the last operation that ran
    req,            \* its request
    calls,          \* the vendor / file-system calls it made, in order
    resp,           \* what it returned
    jiraOut,        \* Jira: what the server process printed in its last operation
    tokenFile,      \* helper name -> the credentials stored in its token.json
    paging,         \* Gmail: a GmailHelper.get_history call followed page by page
    eventLoop,      \* server name -> the tool invocations on its asyncio loop
    agent           \* the agent client process: where it is, what it did

vars == <<started, service, mailboxHead, historyFile, labels, parents,
          calendars, jiraIssue, op, req, calls, resp, jiraOut, tokenFile,
          paging, eventLoop, agent>>

-----------------------------------------------------------------------------
(* Bounds of the model *)

MaxHistoryId == 4
MaxResults == 2
MaxFail == 3
MaxBlocks == 2

\* the most pages a finite history listing has after its first page
MaxPages == 3

\* the most queries one interactive agent session is followed for
MaxRuns == 2

-----------------------------------------------------------------------------
(* Common values *)

None == "None"

NoId == 0

NoToken == 0

Servers == {"gmail", "drive", "calendar"}

SeqFromTo(a, b) == [i \in 1..(b - a + 1) |-> a + i - 1]

Min(a, b) == IF a < b THEN a ELSE b

AnyRaised(cs) == \E i \in 1..Len(cs) : cs[i].outcome = "raises"

CallsTo(cs, api) == {i \in 1..Len(cs) : cs[i].api = api}

\* "if not self.service: if not self.authenticate(): return <failure>"
AuthFails(svc, authOk) == ~svc /\ ~authOk

ServiceAfter(svc, authOk) == svc \/ authOk

-----------------------------------------------------------------------------
(* Gmail: history id file *)

NoFile == [exists |-> FALSE, text |-> NoId]

\* open(file_path, 'w') truncates; f.write(str(history_id)) replaces the whole
\* content.  Every exception is swallowed into the returned dict.
save_history_id(file, history_id, writeOutcome) ==
    CASE writeOutcome = "ok" ->
            [file |-> [exists |-> TRUE, text |-> history_id],
             success |-> TRUE, error |-> None]
      [] writeOutcome = "open_fails" ->
            [file |-> file, success |-> FALSE, error |-> "Error saving historyId"]
      [] OTHER ->
            [file |-> [exists |-> TRUE, text |-> NoId],
             success |-> FALSE, error |-> "Error saving historyId"]

load_history_id(file) ==
    IF file.exists
    THEN [history_id |-> file.text, error |-> None]
    ELSE [history_id |-> NoId, error |-> "No history ID file found"]

-----------------------------------------------------------------------------
(* Gmail: users.history.list as the helper calls it.  The mailbox holds the  *)
(* history records 1..head; a request answers with at most maxResults of the*)
(* records after startHistoryId, from the offset the page token names, and  *)
(* a nextPageToken while records remain.                                    *)

HistoryList(head, start, maxResults, pageToken) ==
    LET first == start + pageToken + 1
        last  == Min(head, start + pageToken + maxResults)
    IN  [history |-> SeqFromTo(first, last),
         nextPageToken |-> IF last < head THEN pageToken + maxResults ELSE NoToken]

ListCall(token, outcome) ==
    [api |-> "users.history.list", pageToken |-> token, outcome |-> outcome]

\* Mutant: the pagination loop is dropped, only the first page is returned.
history_pages_first_page_only(head, start, maxResults, token, history, cs, failAt) ==
    IF failAt = Len(cs) + 1 \/ start > head
    THEN [raised |-> TRUE, history |-> history,
          calls |-> Append(cs, ListCall(token, "raises"))]
    ELSE [raised |-> FALSE,
          history |-> HistoryList(head, start, maxResults, token).history,
          calls |-> Append(cs, ListCall(token, "ok"))]

RECURSIVE history_pages(_, _, _, _, _, _, _)
history_pages(head, start, maxResults, token, history, cs, failAt) ==
    IF failAt = Len(cs) + 1 \/ start > head
    THEN [raised |-> TRUE, history |-> history,
          calls |-> Append(cs, ListCall(token, "raises"))]
    ELSE LET response == HistoryList(head, start, maxResults, token)
             h == history \o response.history
             c == Append(cs, ListCall(token, "ok"))
         IN  IF response.nextPageToken # NoToken
             THEN history_pages(head, start, maxResults,
                                response.nextPageToken, h, c, failAt)
             ELSE [raised |-> FALSE, history |-> h, calls |-> c]

GmailHelper_get_history(svc, authOk, head, start, maxResults, failAt) ==
    IF AuthFails(svc, authOk)
    THEN [history |-> <<>>, latest_history_id |-> NoId,
          error |-> "Failed to authenticate with Gmail", calls |-> <<>>]
    ELSE IF start = NoId
    THEN IF failAt = 1
         THEN [history |-> <<>>, latest_history_id |-> NoId,
               error |-> "Error getting latest historyId",
               calls |-> <<[api |-> "users.getProfile", pageToken |-> NoToken,
                            outcome |-> "raises"]>>]
         ELSE [history |-> <<>>, latest_history_id |-> head, error |-> None,
               calls |-> <<[api |-> "users.getProfile", pageToken |-> NoToken,
                            outcome |-> "ok"]>>]
    ELSE LET r == history_pages(head, start, maxResults, NoToken, <<>>, <<>>, failAt)
         IN  IF r.raised
             THEN [history |-> <<>>, latest_history_id |-> NoId,
                   error |-> "Error retrieving history", calls |-> r.calls]
             ELSE [history |-> r.history,
                   latest_history_id |->
                       IF r.history # <<>> THEN r.history[Len(r.history)] ELSE start,
                   error |-> None, calls |-> r.calls]

ProcessRecord(id) == [id |-> id, changes |-> <<>>]

HistoryResponse(records, latest, error) ==
    [kind |-> "HistoryResponse", history_records |-> records,
     latest_history_id |-> latest, error |-> error]

\* The whole handler: fetch, reshape, save the latest id, answer.
get_gmail_history_result(svc, file, head, r, authOk, failAt, writeOutcome) ==
    LET result == GmailHelper_get_history(svc, authOk, head, r.start_history_id,
                                          r.max_results, failAt)
    IN  IF result.error # None
        THEN [resp |-> HistoryResponse(<<>>, NoId, result.error),
              file |-> file, calls |-> result.calls]
        ELSE LET processed == [i \in 1..Len(result.history) |->
                                   ProcessRecord(result.history[i])]
                 saved == IF result.latest_history_id # NoId
                          THEN save_history_id(file, result.latest_history_id,
                                               writeOutcome)
                          ELSE [file |-> file, success |-> TRUE, error |-> None]
                 wcall == IF result.latest_history_id # NoId
                          THEN <<[api |-> "file.write", pageToken |-> NoToken,
                                  outcome |-> IF saved.success THEN "ok" ELSE "swallowed"]>>
                          ELSE <<>>
             IN  [resp |-> HistoryResponse(processed, result.latest_history_id, None),
                  file |-> saved.file, calls |-> result.calls \o wcall]

get_gmail_history(start, maxResults, authOk, failAt, writeOutcome) ==
    /\ started["gmail"]
    /\ LET r == [start_history_id |-> start, max_results |-> maxResults]
           out == get_gmail_history_result(service["gmail"], historyFile,
                                           mailboxHead, r, authOk, failAt,
                                           writeOutcome)
       IN  /\ op' = "get_gmail_history"
           /\ req' = r
           /\ calls' = out.calls
           /\ resp' = out.resp
           /\ historyFile' = out.file
           /\ service' = [service EXCEPT !["gmail"] =
                             ServiceAfter(service["gmail"], authOk)]
    /\ UNCHANGED <<started, mailboxHead, labels, parents, calendars, jiraIssue, jiraOut,
                   tokenFile, paging, eventLoop, agent>>

load_saved_history_id ==
    /\ started["gmail"]
    /\ LET result == load_history_id(historyFile)
       IN  /\ op' = "load_saved_history_id"
           /\ req' = [start_history_id |-> NoId, max_results |-> 1]
           /\ calls' = <<[api |-> "file.read", pageToken |-> NoToken,
                          outcome |-> "ok"]>>
           /\ resp' = [kind |-> "LoadHistoryIdResponse",
                       history_id |-> result.history_id, error |-> result.error]
    /\ UNCHANGED <<started, service, mailboxHead, historyFile, labels, parents,
                   calendars, jiraIssue, jiraOut, tokenFile, paging,
                   eventLoop, agent>>

\* The mailbox changes under the server: one more history record.
MailboxChange ==
    /\ mailboxHead < MaxHistoryId
    /\ mailboxHead' = mailboxHead + 1
    /\ op' = "MailboxChange"
    /\ req' = [server |-> "gmail"]
    /\ calls' = <<>>
    /\ resp' = [kind |-> "none", error |-> None]
    /\ UNCHANGED <<started, service, historyFile, labels, parents, calendars, jiraIssue,
                   jiraOut, tokenFile, paging, eventLoop, agent>>

-----------------------------------------------------------------------------
(* Gmail: GmailHelper.get_history followed request by request.  The API is  *)
(* the environment: when the listing starts it settles how many pages       *)
(* follow the first (pagesLeft, or Forever for an API that hands out a      *)
(* nextPageToken with every page), and it answers every request with a      *)
(* page of records and a nextPageToken while pages are left.                *)

Forever == 0 - 1

NotPaging ==
    [pc |-> "idle", start |-> NoId, history |-> <<>>, next_page_token |-> NoToken,
     pages |-> 0, pagesLeft |-> 0, served |-> <<>>, error |-> None]

\* The records of the page the API serves next: ids go on where it stopped.
PageOf(p, n) ==
    SeqFromTo(p.start + Len(p.served) + 1, p.start + Len(p.served) + n)

\* How many records a page may hold; an endless listing serves empty pages.
PageSizes(left) == IF left = Forever THEN {0} ELSE 0..MaxResults

\* Mutant: the records of a page are put in front of those already held.
history_extend_in_front(history, page) == page \o history

\* history.extend(response.get('history', []))
history_extend(history, page) == history \o page

\* The locals after one users.history.list request that the API answered
\* with a page of n records.
after_list(p, left, n) ==
    [p EXCEPT !.history = history_extend(@, PageOf(p, n)),
              !.served = @ \o PageOf(p, n),
              !.pages = Min(@ + 1, MaxPages + 1),
              !.pagesLeft = IF left = Forever \/ left = 0 THEN left ELSE left - 1,
              !.next_page_token = IF left = 0 THEN NoToken
                                  ELSE Min(p.pages + 1, MaxPages + 1),
              !.pc = "loop"]

after_raise(p) ==
    [p EXCEPT !.pc = "done", !.history = <<>>,
              !.error = "Error retrieving history"]

\* get_history up to the while: the first users.history.list request.
get_history_first_page(start, left, n, raises) ==
    /\ paging.pc \in {"idle", "done"}
    /\ LET p == [NotPaging EXCEPT !.start = start]
       IN  paging' = IF raises THEN after_raise(p) ELSE after_list(p, left, n)
    /\ op' = "get_history_first_page"
    /\ req' = [start_history_id |-> start]
    /\ calls' = <<ListCall(NoToken, IF raises THEN "raises" ELSE "ok")>>
    /\ resp' = [kind |-> "none", error |-> None]
    /\ UNCHANGED <<started, service, mailboxHead, historyFile, labels, parents,
                   calendars, jiraIssue, jiraOut, tokenFile,
                   eventLoop, agent>>

\* One turn of "while next_page_token:".
get_history_next_page(n, raises) ==
    /\ paging.pc = "loop"
    /\ paging.next_page_token # NoToken
    /\ paging' = IF raises THEN after_raise(paging)
                 ELSE after_list(paging, paging.pagesLeft, n)
    /\ op' = "get_history_next_page"
    /\ calls' = <<ListCall(paging.next_page_token,
                           IF raises THEN "raises" ELSE "ok")>>
    /\ resp' = [kind |-> "none", error |-> None]
    /\ UNCHANGED <<started, service, mailboxHead, historyFile, labels, parents,
                   calendars, jiraIssue, jiraOut, tokenFile, req,
                   eventLoop, agent>>

\* The while ends on an empty next_page_token and get_history returns.
get_history_return ==
    /\ paging.pc = "loop"
    /\ paging.next_page_token = NoToken
    /\ paging' = [paging EXCEPT !.pc = "done"]
    /\ op' = "get_history_return"
    /\ calls' = <<>>
    /\ resp' = [kind |-> "dict", history |-> paging.history,
                latest_history_id |->
                    IF paging.history # <<>>
                    THEN paging.history[Len(paging.history)] ELSE paging.start,
                error |-> None]
    /\ UNCHANGED <<started, service, mailboxHead, historyFile, labels, parents,
                   calendars, jiraIssue, jiraOut, tokenFile, req,
                   eventLoop, agent>>

-----------------------------------------------------------------------------
(* Gmail: labels (create_gmail_label, update_gmail_label) *)

LabelIds == {"Label_1"}

RequestLabelIds == {"Label_1", "Label_404"}

LabelNames == {"Work", "Renamed"}

NoColor == [present |-> FALSE, textColor |-> None, backgroundColor |-> None]

Color(text, background) ==
    [present |-> TRUE, textColor |-> text, backgroundColor |-> background]

\* Python truthiness of an Optional[str]
Truthy(x) == x # None /\ x # ""

\* create_label: the colour is sent only when both colours are given.
GmailHelper_create_label(svc, authOk, lbls, name, text_color, background_color, apiOk) ==
    IF AuthFails(svc, authOk)
    THEN [label |-> None, error |-> "Failed to authenticate with Gmail",
          calls |-> <<>>, labels |-> lbls]
    ELSE LET label_body ==
                 [name |-> name, labelListVisibility |-> "labelShow",
                  messageListVisibility |-> "show",
                  color |-> IF Truthy(text_color) /\ Truthy(background_color)
                            THEN Color(text_color, background_color) ELSE NoColor]
             free == LabelIds \ DOMAIN lbls
             call(o) == [api |-> "labels.create", body |-> label_body, outcome |-> o]
         IN  IF apiOk /\ free # {}
             THEN LET id == CHOOSE x \in free : TRUE
                  IN  [label |-> [id |-> id], error |-> None,
                       calls |-> <<call("ok")>>,
                       labels |-> [x \in DOMAIN lbls \cup {id} |->
                                      IF x = id THEN label_body ELSE lbls[x]]]
             ELSE [label |-> None, error |-> "Error creating label",
                   calls |-> <<call("raises")>>, labels |-> lbls]

create_gmail_label(name, text_color, background_color, authOk, apiOk) ==
    /\ started["gmail"]
    /\ LET result == GmailHelper_create_label(service["gmail"], authOk, labels,
                         name, text_color, background_color, apiOk)
       IN  /\ op' = "create_gmail_label"
           /\ req' = [name |-> name, text_color |-> text_color,
                      background_color |-> background_color]
           /\ calls' = result.calls
           /\ resp' = [kind |-> "LabelResponse",
                       label |-> IF result.error # None THEN None ELSE result.label,
                       error |-> result.error]
           /\ labels' = result.labels
           /\ service' = [service EXCEPT !["gmail"] =
                             ServiceAfter(service["gmail"], authOk)]
    /\ UNCHANGED <<started, mailboxHead, historyFile, parents, calendars, jiraIssue, jiraOut,
                   tokenFile, paging, eventLoop, agent>>

\* x if the request gives it, else the existing label's value
Given(x, existing) == IF x # None THEN x ELSE existing

\* gmail_mcp_server.py: the body update_gmail_label builds from the request
\* and the existing label
updated_label_body(r, target_label) ==
    LET text_color == IF r.text_color = None /\ target_label.color.present
                      THEN target_label.color.textColor ELSE r.text_color
        background_color == IF r.background_color = None /\ target_label.color.present
                            THEN target_label.color.backgroundColor
                            ELSE r.background_color
    IN  [name |-> Given(r.name, target_label.name),
         messageListVisibility |->
             Given(r.message_list_visibility, target_label.messageListVisibility),
         labelListVisibility |->
             Given(r.label_list_visibility, target_label.labelListVisibility),
         color |-> IF (r.text_color # None \/ r.background_color # None)
                      /\ Truthy(text_color) /\ Truthy(background_color)
                   THEN Color(text_color, background_color)
                   ELSE NoColor]

update_gmail_label_result(svc, lbls, r, authOk, listOk, updateOk) ==
    LET list(o) == [api |-> "labels.list", labels |-> lbls, outcome |-> o]
    IN  IF AuthFails(svc, authOk)
        THEN [label |-> None, error |-> "Failed to retrieve existing label",
              calls |-> <<>>, labels |-> lbls]
        ELSE IF ~listOk
        THEN [label |-> None, error |-> "Failed to retrieve existing label",
              calls |-> <<list("raises")>>, labels |-> lbls]
        ELSE IF r.label_id \notin DOMAIN lbls
        THEN [label |-> None, error |-> "Label with ID not found",
              calls |-> <<list("ok")>>, labels |-> lbls]
        ELSE LET body == updated_label_body(r, lbls[r.label_id])
                 update(o) == [api |-> "labels.update", id |-> r.label_id,
                               body |-> body, outcome |-> o]
             IN  IF ~updateOk
                 THEN [label |-> None, error |-> "Error updating label",
                       calls |-> <<list("ok"), update("raises")>>, labels |-> lbls]
                 ELSE [label |-> body, error |-> None,
                       calls |-> <<list("ok"), update("ok")>>,
                       labels |-> [lbls EXCEPT ![r.label_id] = body]]

update_gmail_label(r, authOk, listOk, updateOk) ==
    /\ started["gmail"]
    /\ LET result == update_gmail_label_result(service["gmail"], labels, r,
                                               authOk, listOk, updateOk)
       IN  /\ op' = "update_gmail_label"
           /\ req' = r
           /\ calls' = result.calls
           /\ resp' = [kind |-> "LabelResponse",
                       label |-> IF result.error # None THEN None ELSE result.label,
                       error |-> result.error]
           /\ labels' = result.labels
           /\ service' = [service EXCEPT !["gmail"] =
                             ServiceAfter(service["gmail"], authOk)]
    /\ UNCHANGED <<started, mailboxHead, historyFile, parents, calendars, jiraIssue, jiraOut,
                   tokenFile, paging, eventLoop, agent>>

UpdateLabelRequests ==
    [label_id : RequestLabelIds,
     name : {None, "Renamed"},
     text_color : {None, "#000000"},
     background_color : {None, "#ffffff"},
     message_list_visibility : {None, "hide"},
     label_list_visibility : {None, "labelHide"}]

-----------------------------------------------------------------------------
(* Gmail: modify_gmail_message *)

\* Optional[List[str]]: None, or a list
NoneList == [isNone |-> TRUE, items |-> <<>>]

List(items) == [isNone |-> FALSE, items |-> items]

\* Python truthiness of an Optional[List[str]]
NonEmpty(l) == ~l.isNone /\ l.items # <<>>

\* body = {}; if add_labels: body['addLabelIds'] = ...; if remove_labels: ...
modify_body(add_labels, remove_labels) ==
    [keys |-> (IF NonEmpty(add_labels) THEN {"addLabelIds"} ELSE {})
               \cup (IF NonEmpty(remove_labels) THEN {"removeLabelIds"} ELSE {}),
     addLabelIds |-> IF NonEmpty(add_labels) THEN add_labels.items ELSE <<>>,
     removeLabelIds |-> IF NonEmpty(remove_labels) THEN remove_labels.items ELSE <<>>]

\* The helper catches HttpError only; anything else reaches the handler.
GmailHelper_modify_message(svc, authOk, add_labels, remove_labels, apiOutcome) ==
    IF AuthFails(svc, authOk)
    THEN [message |-> None, error |-> "Failed to authenticate with Gmail",
          calls |-> <<>>, raised |-> FALSE]
    ELSE LET call == [api |-> "messages.modify",
                      body |-> modify_body(add_labels, remove_labels),
                      outcome |-> IF apiOutcome = "ok" THEN "ok" ELSE "raises"]
         IN  CASE apiOutcome = "ok" ->
                    [message |-> [labelsChanged |-> call.body.keys], error |-> None,
                     calls |-> <<call>>, raised |-> FALSE]
               [] apiOutcome = "HttpError" ->
                    [message |-> None, error |-> "Error modifying message",
                     calls |-> <<call>>, raised |-> FALSE]
               [] OTHER ->
                    [message |-> None, error |-> None,
                     calls |-> <<call>>, raised |-> TRUE]

MessageResponse(message, error) ==
    [kind |-> "MessageResponse", message |-> message, error |-> error]

\* Mutant: only None is rejected, an empty list counts as provided.
modify_gmail_message_result_none_check(svc, r, authOk, apiOutcome) ==
    IF r.add_labels.isNone /\ r.remove_labels.isNone
    THEN [resp |-> MessageResponse(None,
                     "At least one of add_labels or remove_labels must be provided"),
          calls |-> <<>>, authenticated |-> FALSE]
    ELSE LET result == GmailHelper_modify_message(svc, authOk, r.add_labels,
                                                  r.remove_labels, apiOutcome)
         IN  [resp |-> MessageResponse(
                          IF result.error # None \/ result.raised THEN None
                          ELSE result.message,
                          IF result.raised THEN "Error in modify_gmail_message"
                          ELSE result.error),
              calls |-> result.calls, authenticated |-> authOk]

modify_gmail_message_result(svc, r, authOk, apiOutcome) ==
    IF ~NonEmpty(r.add_labels) /\ ~NonEmpty(r.remove_labels)
    THEN [resp |-> MessageResponse(None,
                     "At least one of add_labels or remove_labels must be provided"),
          calls |-> <<>>, authenticated |-> FALSE]
    ELSE LET result == GmailHelper_modify_message(svc, authOk, r.add_labels,
                                                  r.remove_labels, apiOutcome)
         IN  [resp |-> MessageResponse(
                          IF result.error # None \/ result.raised THEN None
                          ELSE result.message,
                          IF result.raised THEN "Error in modify_gmail_message"
                          ELSE result.error),
              calls |-> result.calls, authenticated |-> authOk]

modify_gmail_message(add_labels, remove_labels, authOk, apiOutcome) ==
    /\ started["gmail"]
    /\ LET r == [add_labels |-> add_labels, remove_labels |-> remove_labels]
           out == modify_gmail_message_result(service["gmail"], r, authOk, apiOutcome)
       IN  /\ op' = "modify_gmail_message"
           /\ req' = r
           /\ calls' = out.calls
           /\ resp' = out.resp
           /\ service' = [service EXCEPT !["gmail"] =
                             ServiceAfter(service["gmail"], out.authenticated)]
    /\ UNCHANGED <<started, mailboxHead, historyFile, labels, parents, calendars, jiraIssue,
                   jiraOut, tokenFile, paging, eventLoop, agent>>

AddLabelLists == {NoneList, List(<<>>), List(<<"STARRED">>), List(<<"STARRED", "IMPORTANT">>)}

RemoveLabelLists == {NoneList, List(<<>>), List(<<"UNREAD">>)}

-----------------------------------------------------------------------------
(* Jira: extract_jira_issue.  Text is a sequence of pieces, so that the      *)
(* concatenation the handler performs is computed.                          *)

Newline == "\n"

\* fields.description as Jira returns it: the key missing, null, a plain
\* string, an Atlassian Document Format document, or a dict with no content
NoDescription == [kind |-> "null", text |-> <<>>, content |-> <<>>]

Descriptions ==
    {[kind |-> "missing", text |-> <<>>, content |-> <<>>],
     NoDescription,
     [kind |-> "string", text |-> <<"plain text">>, content |-> <<>>],
     [kind |-> "adf", text |-> <<>>, content |-> <<>>],
     [kind |-> "dict", text |-> <<>>, content |-> <<>>]}

TextNode(t) == [type |-> "text", text |-> t]

HardBreak == [type |-> "hardBreak", text |-> ""]

InlineContents ==
    {<<>>, <<TextNode("a")>>, <<TextNode("a"), TextNode("b")>>,
     <<TextNode("a"), HardBreak, TextNode("b")>>}

\* A top-level ADF node; hasContent says whether it has a "content" key.
Blocks ==
    [type : {"paragraph", "heading"}, hasContent : {TRUE}, content : InlineContents]
    \cup [type : {"paragraph", "heading"}, hasContent : {FALSE}, content : {<<>>}]

RECURSIVE NodeTexts(_)
NodeTexts(content) ==
    IF content = <<>> THEN <<>>
    ELSE (IF Head(content).type = "text" THEN <<Head(content).text>> ELSE <<>>)
         \o NodeTexts(Tail(content))

\* for content in description["content"]: paragraphs that have content give
\* their text nodes' text and then "\n"
RECURSIVE AdfText(_)
AdfText(blocks) ==
    IF blocks = <<>> THEN <<>>
    ELSE (IF Head(blocks).type = "paragraph" /\ Head(blocks).hasContent
          THEN NodeTexts(Head(blocks).content) \o <<Newline>>
          ELSE <<>>)
         \o AdfText(Tail(blocks))

\* description after lines 98-109: a str value, or a value pydantic rejects
ExtractDescription(d) ==
    CASE d.kind = "missing" -> [isStr |-> TRUE, text |-> <<>>]
      [] d.kind = "string" -> [isStr |-> TRUE, text |-> d.text]
      [] d.kind = "adf" -> [isStr |-> TRUE, text |-> AdfText(d.content)]
      [] OTHER -> [isStr |-> FALSE, text |-> <<>>]

JiraIssueResponse(summary, description, error) ==
    [kind |-> "JiraIssueResponse", summary |-> summary,
     description |-> description, error |-> error]

\* The environment of the Jira server process: each variable is unset
\* (None), set to the empty string, or set to a value.
JiraEnvs ==
    [JIRA_BASE_URL : {None, "https://acme.atlassian.net"},
     JIRA_INSTANCE_URL : {None, "https://jira.acme.example"},
     JIRA_EMAIL : {None, "dev@acme.example"},
     JIRA_USERNAME : {None, "dev"},
     JIRA_API_TOKEN : {None, "", "tokenA", "tokenB"}]

\* os.getenv(a) or os.getenv(b)
GetenvOr(a, b) == IF Truthy(a) THEN a ELSE b

\* f"{value}" of an Optional[str]
Str(x) == x

\* ', '.join(names)
RECURSIVE Join(_)
Join(names) ==
    IF names = <<>> THEN ""
    ELSE IF Len(names) = 1 THEN Head(names)
    ELSE Head(names) \o ", " \o Join(Tail(names))

\* Mutant: only the first missing variable is reported.
MissingVars_first_only(jira_base_url, jira_email, jira_api_token) ==
    IF ~Truthy(jira_base_url) THEN <<"JIRA_BASE_URL/JIRA_INSTANCE_URL">>
    ELSE IF ~Truthy(jira_email) THEN <<"JIRA_EMAIL/JIRA_USERNAME">>
    ELSE IF ~Truthy(jira_api_token) THEN <<"JIRA_API_TOKEN">>
    ELSE <<>>

MissingVars(jira_base_url, jira_email, jira_api_token) ==
    (IF ~Truthy(jira_base_url) THEN <<"JIRA_BASE_URL/JIRA_INSTANCE_URL">> ELSE <<>>)
    \o (IF ~Truthy(jira_email) THEN <<"JIRA_EMAIL/JIRA_USERNAME">> ELSE <<>>)
    \o (IF ~Truthy(jira_api_token) THEN <<"JIRA_API_TOKEN">> ELSE <<>>)

\* Mutant: the debugging print shows the token as well.
credentials_print_with_token(jira_base_url, jira_email, jira_api_token) ==
    "Using Jira credentials - URL: " \o Str(jira_base_url) \o ", User: "
        \o Str(jira_email) \o ", Token: " \o Str(jira_api_token)

\* print(f"Using Jira credentials - URL: {jira_base_url}, User: {jira_email}")
credentials_print(jira_base_url, jira_email, jira_api_token) ==
    "Using Jira credentials - URL: " \o Str(jira_base_url) \o ", User: "
        \o Str(jira_email)

\* The body Jira sends with a status other than 200.
ResponseText(http) == "{\"errorMessages\":[\"Issue does not exist\"]}"

\* The handler's result: the response, the HTTP requests sent (with the
\* basic-auth pair they carry) and the lines printed.
extract_jira_issue_result(env, issue_key, issue, http) ==
    LET jira_base_url == GetenvOr(env.JIRA_BASE_URL, env.JIRA_INSTANCE_URL)
        jira_email == GetenvOr(env.JIRA_EMAIL, env.JIRA_USERNAME)
        jira_api_token == env.JIRA_API_TOKEN
        missing_vars == MissingVars(jira_base_url, jira_email, jira_api_token)
        using == credentials_print(jira_base_url, jira_email, jira_api_token)
        api_url == Str(jira_base_url) \o "/rest/api/3/issue/" \o issue_key
        fetching == "Fetching Jira issue from: " \o api_url
        get(o, status) ==
            [api |-> "requests.get", url |-> api_url,
             auth |-> <<jira_email, jira_api_token>>, status |-> status,
             outcome |-> o]
        caught(exception) == "Error extracting Jira issue: " \o exception
    IN  IF missing_vars # <<>>
        THEN LET error_msg ==
                     "Jira credentials not found in environment variables: "
                         \o Join(missing_vars)
             IN  [resp |-> JiraIssueResponse("", <<>>, error_msg),
                  calls |-> <<>>,
                  console |-> <<using, "ERROR: " \o error_msg>>]
        ELSE IF http = "raises"
        THEN [resp |-> JiraIssueResponse("", <<>>, caught("ConnectionError")),
              calls |-> <<get("raises", "none")>>,
              console |-> <<using, fetching,
                            "ERROR: " \o caught("ConnectionError"),
                            "Traceback: ConnectionError">>]
        ELSE IF http # "200"
        THEN LET error_msg == "Failed to fetch Jira issue: " \o http \o " - "
                                  \o ResponseText(http)
             IN  [resp |-> JiraIssueResponse("", <<>>, error_msg),
                  calls |-> <<get("ok", http)>>,
                  console |-> <<using, fetching, "ERROR: " \o error_msg>>]
        ELSE LET description == ExtractDescription(issue.description)
             IN  IF description.isStr
                 THEN [resp |-> JiraIssueResponse(issue.summary, description.text, None),
                       calls |-> <<get("ok", http)>>,
                       console |-> <<using, fetching,
                                     "Successfully retrieved Jira issue "
                                         \o issue_key>>]
                 ELSE \* JiraIssueResponse(description=<not a str>) raises a
                      \* ValidationError, which the handler's except catches
                      [resp |-> JiraIssueResponse("", <<>>, caught("ValidationError")),
                       calls |-> <<get("ok", http)>>,
                       console |-> <<using, fetching,
                                     "ERROR: " \o caught("ValidationError"),
                                     "Traceback: ValidationError">>]

extract_jira_issue(env, http) ==
    /\ LET out == extract_jira_issue_result(env, "PROJ-1", jiraIssue, http)
       IN  /\ op' = "extract_jira_issue"
           /\ req' = [issue_key |-> "PROJ-1", env |-> env, answer |-> http]
           /\ calls' = out.calls
           /\ resp' = out.resp
           /\ jiraOut' = out.console
    /\ UNCHANGED <<started, service, mailboxHead, historyFile, labels, parents,
                   calendars, jiraIssue, tokenFile, paging,
                   eventLoop, agent>>

\* main() of the Jira server up to uvicorn.run: the credential check prints.
jira_main_console(env) ==
    LET jira_base_url == GetenvOr(env.JIRA_BASE_URL, env.JIRA_INSTANCE_URL)
        jira_email == GetenvOr(env.JIRA_EMAIL, env.JIRA_USERNAME)
        jira_api_token == env.JIRA_API_TOKEN
    IN  <<"Jira MCP Server - Credential Check:",
          IF Truthy(jira_base_url)
          THEN "JIRA_BASE_URL/INSTANCE_URL: " \o jira_base_url
          ELSE "JIRA_BASE_URL/INSTANCE_URL: Not found in environment variables",
          IF Truthy(jira_email)
          THEN "JIRA_EMAIL/USERNAME: " \o jira_email
          ELSE "JIRA_EMAIL/USERNAME: Not found in environment variables",
          IF Truthy(jira_api_token)
          THEN "JIRA_API_TOKEN: Present (not showing for security)"
          ELSE "JIRA_API_TOKEN: Not found in environment variables",
          "Starting Jira MCP Server on 127.0.0.1:3003">>

jira_main(env) ==
    /\ op' = "jira_main"
    /\ req' = [server |-> "jira", env |-> env]
    /\ calls' = <<>>
    /\ resp' = [kind |-> "none", error |-> None]
    /\ jiraOut' = jira_main_console(env)
    /\ UNCHANGED <<started, service, mailboxHead, historyFile, labels, parents,
                   calendars, jiraIssue, tokenFile, paging,
                   eventLoop, agent>>

\* The issue is edited in Jira.
JiraEdit(issue) ==
    /\ jiraIssue' = issue
    /\ jiraIssue' # jiraIssue
    /\ op' = "JiraEdit"
    /\ req' = [server |-> "jira"]
    /\ calls' = <<>>
    /\ resp' = [kind |-> "none", error |-> None]
    /\ UNCHANGED <<started, service, mailboxHead, historyFile, labels, parents,
                   calendars, jiraOut, tokenFile, paging, eventLoop,
                   agent>>

-----------------------------------------------------------------------------
(* Video: transcribe_video, summarize_video_transcript, summarize_video *)

VideoCall(api, ok) == [api |-> api, outcome |-> IF ok THEN "ok" ELSE "raises"]

VideoTranscriptionResponse(transcript, error) ==
    [kind |-> "VideoTranscriptionResponse", transcript |-> transcript,
     error |-> error]

\* The try block of transcribe_video: what it returns and which temporary
\* files it has created by then.  failStage names the call that raises.
transcribe_video_try(r, failStage) ==
    LET fromData == Truthy(r.video_data_base64)
        failed(cs, tmp) ==
            [resp |-> VideoTranscriptionResponse("", "Error transcribing video"),
             calls |-> cs, temps |-> tmp]
        decode == VideoCall("base64.b64decode", r.video_data_base64 # "invalid")
        clip == VideoCall("VideoFileClip", failStage # "clip")
        whisper == VideoCall("audio.transcriptions.create", failStage # "whisper")
        pre == IF fromData THEN <<decode>> ELSE <<>>
        tmp == IF fromData THEN {"temp_video", "temp_audio"} ELSE {"temp_audio"}
    IN  IF fromData /\ r.video_data_base64 = "invalid"
        THEN failed(<<decode>>, {})
        ELSE IF ~fromData /\ ~Truthy(r.video_path)
        THEN [resp |-> VideoTranscriptionResponse("",
                           "Either video_data_base64 or video_path must be provided"),
              calls |-> <<>>, temps |-> {}]
        ELSE IF ~fromData /\ r.video_path = "missing"
        THEN [resp |-> VideoTranscriptionResponse("",
                           "Video file does not exist at path"),
              calls |-> <<>>, temps |-> {}]
        ELSE IF failStage = "clip"
        THEN failed(pre \o <<clip>>, tmp)
        ELSE IF failStage = "whisper"
        THEN failed(pre \o <<clip, whisper>>, tmp)
        ELSE [resp |-> VideoTranscriptionResponse("transcript text", None),
              calls |-> pre \o <<clip, whisper>>, temps |-> tmp]

\* try / except / finally: the finally block unlinks the temporary files, and
\* an exception raised there leaves the handler.
transcribe_video_result(r, failStage, unlinkOk) ==
    LET t == transcribe_video_try(r, failStage)
    IN  IF t.temps = {}
        THEN [resp |-> t.resp, calls |-> t.calls]
        ELSE IF unlinkOk
        THEN [resp |-> t.resp, calls |-> t.calls \o <<VideoCall("os.unlink", TRUE)>>]
        ELSE [resp |-> [kind |-> "raised", exception |-> "OSError"],
              calls |-> t.calls \o <<VideoCall("os.unlink", FALSE)>>]

transcribe_video(r, failStage, unlinkOk) ==
    /\ LET out == transcribe_video_result(r, failStage, unlinkOk)
       IN  /\ op' = "transcribe_video"
           /\ req' = r
           /\ calls' = out.calls
           /\ resp' = out.resp
    /\ UNCHANGED <<started, service, mailboxHead, historyFile, labels, parents,
                   calendars, jiraIssue, jiraOut, tokenFile, paging,
                   eventLoop, agent>>

\* -> str: the summary, or the error message as the return value
summarize_video_transcript_result(apiOk) ==
    IF apiOk
    THEN [resp |-> [kind |-> "str", text |-> "summary text"],
          calls |-> <<VideoCall("chat.completions.create", TRUE)>>]
    ELSE [resp |-> [kind |-> "str", text |-> "Error summarizing transcript"],
          calls |-> <<VideoCall("chat.completions.create", FALSE)>>]

summarize_video_transcript(transcript, apiOk) ==
    /\ LET out == summarize_video_transcript_result(apiOk)
       IN  /\ op' = "summarize_video_transcript"
           /\ req' = [transcript |-> transcript]
           /\ calls' = out.calls
           /\ resp' = out.resp
    /\ UNCHANGED <<started, service, mailboxHead, historyFile, labels, parents,
                   calendars, jiraIssue, jiraOut, tokenFile, paging,
                   eventLoop, agent>>

\* The mock summary; no vendor call is made.
summarize_video_result(r, keyPresent) ==
    IF ~keyPresent
    THEN [kind |-> "VideoSummarizationResponse", summary |-> "",
          error |-> "OPENAI_API_KEY not found in environment variables"]
    ELSE [kind |-> "VideoSummarizationResponse",
          summary |-> <<"mock summary", r.video_url, r.language, r.length>>,
          error |-> None]

summarize_video(r, keyPresent) ==
    /\ op' = "summarize_video"
    /\ req' = r
    /\ calls' = <<>>
    /\ resp' = summarize_video_result(r, keyPresent)
    /\ UNCHANGED <<started, service, mailboxHead, historyFile, labels, parents,
                   calendars, jiraIssue, jiraOut, tokenFile, paging,
                   eventLoop, agent>>

TranscriptionRequests ==
    [video_data_base64 : {None, "", "valid", "invalid"},
     video_path : {None, "", "exists", "missing"}]

SummarizationRequests ==
    [video_url : {"https://example.com/v.mp4"}, language : {"en", "hi"},
     length : {"short", "medium", "long"}]

-----------------------------------------------------------------------------
(* authenticate() of GmailHelper, GoogleDriveHelper and GoogleCalendarHelper. *)
(* token.json holds credentials as the vendor library sees them: valid       *)
(* (a token that has not expired), expired, and with or without a refresh   *)
(* token.                                                                   *)

NoTokenFile ==
    [exists |-> FALSE, loadable |-> FALSE, valid |-> FALSE, expired |-> FALSE,
     refresh_token |-> FALSE]

\* A file that Credentials.from_authorized_user_file rejects.
BrokenTokenFile ==
    [exists |-> TRUE, loadable |-> FALSE, valid |-> FALSE, expired |-> FALSE,
     refresh_token |-> FALSE]

Credentials(valid, expired, refresh_token) ==
    [exists |-> TRUE, loadable |-> TRUE, valid |-> valid, expired |-> expired,
     refresh_token |-> refresh_token]

\* creds.valid is "has a token and is not expired"
TokenFiles ==
    {NoTokenFile, BrokenTokenFile}
    \cup {Credentials(v, e, r) : v \in BOOLEAN, e \in {FALSE}, r \in BOOLEAN}
    \cup {Credentials(FALSE, TRUE, r) : r \in BOOLEAN}

\* The credentials a successful refresh or OAuth flow leaves.
FreshCredentials == Credentials(TRUE, FALSE, TRUE)

\* Mutant: the loaded credentials are never good enough.
needs_new_credentials_always(creds) == TRUE

\* "if not creds or not creds.valid"
needs_new_credentials(creds) == ~creds.exists \/ ~creds.valid

\* authenticate(): what it returns, whether self.service is set, the token
\* file afterwards and the calls made.  refreshOk, flowOk and buildOk say
\* whether the vendor call succeeds; save is "ok", "open_fails" or
\* "write_fails" for the rewrite of the token file.
authenticate_result(file, refreshOk, flowOk, save, buildOk) ==
    LET call(api, ok) == [api |-> api, outcome |-> IF ok THEN "ok" ELSE "raises"]
        load == call("Credentials.from_authorized_user_file", file.loadable)
        stop(cs, f) == [ret |-> FALSE, service |-> FALSE, file |-> f, calls |-> cs]
    IN  IF file.exists /\ ~file.loadable THEN stop(<<load>>, file)
        ELSE
        LET loaded == IF file.exists THEN <<load>> ELSE <<>>
            \* creds is None when there is no token file
            c0 == IF file.exists THEN file ELSE NoTokenFile
            build(cs, f) == [ret |-> buildOk, service |-> buildOk, file |-> f,
                             calls |-> cs \o <<call("build", buildOk)>>]
        IN  IF ~needs_new_credentials(c0) THEN build(loaded, file)
            ELSE
            LET tryRefresh == c0.exists /\ c0.expired /\ c0.refresh_token
                refreshed == IF tryRefresh
                             THEN <<call("creds.refresh", refreshOk)>> ELSE <<>>
                \* creds after the refresh block: refreshed, None, or as loaded
                c1 == IF tryRefresh
                      THEN (IF refreshOk THEN FreshCredentials ELSE NoTokenFile)
                      ELSE c0
                needFlow == needs_new_credentials(c1)
                flowed == IF needFlow
                          THEN <<call("flow.run_local_server", flowOk)>> ELSE <<>>
                sofar == loaded \o refreshed \o flowed
            IN  IF needFlow /\ ~flowOk THEN stop(sofar, file)
                ELSE
                LET c2 == IF needFlow THEN FreshCredentials ELSE c1
                    open == call("open(token_path, 'w')", save # "open_fails")
                    write == call("token.write", save = "ok")
                IN  CASE save = "open_fails" -> stop(sofar \o <<open>>, file)
                      [] save = "write_fails" ->
                            stop(sofar \o <<open, write>>, BrokenTokenFile)
                      [] OTHER -> build(sofar \o <<open, write>>, c2)

authenticate(server, refreshOk, flowOk, save, buildOk) ==
    /\ LET out == authenticate_result(tokenFile[server], refreshOk, flowOk, save,
                                      buildOk)
       IN  /\ op' = "authenticate"
           /\ req' = [server |-> server, token_file |-> tokenFile[server]]
           /\ calls' = out.calls
           /\ resp' = [kind |-> "bool", value |-> out.ret, error |-> None]
           /\ service' = [service EXCEPT ![server] = @ \/ out.service]
           /\ tokenFile' = [tokenFile EXCEPT ![server] = out.file]
    /\ UNCHANGED <<started, mailboxHead, historyFile, labels, parents, calendars,
                   jiraIssue, jiraOut, paging, eventLoop, agent>>

\* Time passes or somebody touches token.json: the stored credentials
\* expire, are revoked, are removed or are damaged.
TokenFileChange(server, file) ==
    /\ tokenFile[server] # file
    /\ tokenFile' = [tokenFile EXCEPT ![server] = file]
    /\ op' = "TokenFileChange"
    /\ req' = [server |-> server]
    /\ calls' = <<>>
    /\ resp' = [kind |-> "none", error |-> None]
    /\ UNCHANGED <<started, service, mailboxHead, historyFile, labels, parents,
                   calendars, jiraIssue, jiraOut, paging, eventLoop,
                   agent>>

-----------------------------------------------------------------------------
(* The asyncio event loop of a server process.  uvicorn.run serves every    *)
(* connection on one loop; a tool invocation is a coroutine on it, and the  *)
(* loop can switch to another coroutine only where the running one awaits.  *)

\* The invocations one process has in hand at a time.
Tasks == 1..2

NoTask == 0

\* The vendor calls and file accesses a handler makes, in order.
HandlerCalls(handler) ==
    CASE handler = "get_gmail_history" -> <<"users.history.list", "save_history_id">>
      [] handler = "load_saved_history_id" -> <<"load_history_id">>
      [] handler = "update_event" -> <<"events.get", "events.update">>
      [] handler = "delete_calendar" -> <<"calendars.delete">>
      [] handler = "move_drive_file" -> <<"files.get", "files.update">>
      [] handler = "get_file_metadata" -> <<"files.get">>
      [] OTHER -> <<>>

Handlers(server) ==
    CASE server = "gmail" -> {"get_gmail_history", "load_saved_history_id"}
      [] server = "calendar" -> {"update_event", "delete_calendar"}
      [] server = "drive" -> {"move_drive_file", "get_file_metadata"}

\* Mutant: the handler awaits after its first call.
AwaitPoints_after_first_call(handler) == {1}

\* The calls of a handler after which its body awaits: no handler body of
\* these servers contains an await.
AwaitPoints(handler) == {}

IdleTask == [handler |-> "none", status |-> "idle", made |-> 0]

IdleLoop == [running |-> NoTask, tasks |-> [t \in Tasks |-> IdleTask]]

\* A call_tool request arrives: its coroutine is scheduled on the loop.
tool_request(server, task, handler) ==
    /\ eventLoop[server].tasks[task].status \in {"idle", "returned"}
    /\ eventLoop' = [eventLoop EXCEPT ![server].tasks[task] =
                        [handler |-> handler, status |-> "pending", made |-> 0]]
    /\ op' = "tool_request"
    /\ req' = [server |-> server, task |-> task, handler |-> handler]
    /\ calls' = <<>>
    /\ resp' = [kind |-> "none", error |-> None]
    /\ UNCHANGED <<started, service, mailboxHead, historyFile, labels, parents,
                   calendars, jiraIssue, jiraOut, tokenFile, paging,
                   agent>>

\* The loop runs a coroutine up to its next call: it picks a scheduled one
\* when no coroutine holds the loop, and otherwise goes on with the holder.
\* The coroutine gives the loop up when it awaits or returns.
handler_step(server, task) ==
    LET loop == eventLoop[server]
        t == loop.tasks[task]
        made == t.made + 1
        returns == made = Len(HandlerCalls(t.handler))
        yields == made \in AwaitPoints(t.handler)
    IN  /\ t.status \in {"pending", "running"}
        /\ loop.running \in {NoTask, task}
        /\ eventLoop' = [eventLoop EXCEPT ![server] =
              [running |-> IF returns \/ yields THEN NoTask ELSE task,
               tasks |-> [loop.tasks EXCEPT ![task] =
                  [t EXCEPT !.made = made,
                            !.status = IF returns THEN "returned" ELSE "running"]]]]
        /\ op' = "handler_step"
        /\ req' = [server |-> server, task |-> task, handler |-> t.handler]
        /\ calls' = <<[api |-> HandlerCalls(t.handler)[made], outcome |-> "ok"]>>
        /\ resp' = [kind |-> "none", error |-> None]
        /\ UNCHANGED <<started, service, mailboxHead, historyFile, labels,
                       parents, calendars, jiraIssue, jiraOut, tokenFile, paging,
                   agent>>

-----------------------------------------------------------------------------
(* The agent clients.  The Gmail, Calendar, Drive and Playwright clients    *)
(* connect inside run_*_agent, once per query; the Jira and Video clients   *)
(* connect in setup() of an analyzer object and clean up in close(), which  *)
(* main() calls in a finally.                                               *)

FunctionClients == {"gmail", "calendar", "drive", "playwright"}

ObjectClients == {"jira", "video"}

AgentClients == FunctionClients \cup ObjectClients

NoAgent ==
    [client |-> "none", pc |-> "idle", key |-> FALSE, mcp_client |-> FALSE,
     events |-> <<>>, runs |-> 0]

AgentStep(name, outcome) ==
    /\ op' = name
    /\ req' = [client |-> agent'.client]
    /\ calls' = <<[api |-> name, outcome |-> outcome]>>
    /\ resp' = [kind |-> "none", error |-> None]
    /\ UNCHANGED <<started, service, mailboxHead, historyFile, labels, parents,
                   calendars, jiraIssue, jiraOut, tokenFile, paging, eventLoop>>

Outcome(ok) == IF ok THEN "ok" ELSE "raises"

\* Where an exception raised before the inner try leads: run_*_agent
\* catches it and returns; the analyzer objects let it reach main()'s
\* finally, which calls close().
after_setup_failure(client) ==
    IF client \in FunctionClients THEN "done" ELSE "cleanup"

\* run_*_agent or main() starts on a query and checks OPENAI_API_KEY; an
\* interactive session of a function client goes on with the next query.
agent_start(client, keyPresent) ==
    /\ \/ agent.pc = "idle"
       \/ agent.pc = "done" /\ agent.client = client
          /\ client \in FunctionClients /\ agent.runs < MaxRuns
    /\ agent' = [client |-> client, pc |-> IF keyPresent THEN "llm" ELSE "done",
                 key |-> keyPresent, mcp_client |-> FALSE, events |-> <<>>,
                 runs |-> agent.runs + 1]
    /\ AgentStep("agent_start", "ok")

\* ChatOpenAI(...)
agent_create_llm(ok) ==
    /\ agent.pc = "llm"
    /\ agent' = [agent EXCEPT !.pc = IF ok THEN "connect"
                                    ELSE after_setup_failure(agent.client)]
    /\ AgentStep("ChatOpenAI", Outcome(ok))

\* mcp_client = MultiServerMCPClient(...); await mcp_client.__aenter__()
agent_connect(ok) ==
    /\ agent.pc = "connect"
    /\ agent' = [agent EXCEPT
          !.mcp_client = TRUE,
          !.events = Append(@, IF ok THEN "aenter_ok" ELSE "aenter_raises"),
          !.pc = IF ok THEN "tools" ELSE after_setup_failure(agent.client)]
    /\ AgentStep("__aenter__", Outcome(ok))

\* mcp_client.get_tools(); create_react_agent(...)
agent_get_tools(ok) ==
    /\ agent.pc = "tools"
    /\ agent' = [agent EXCEPT !.pc = IF ok THEN "invoke" ELSE "cleanup"]
    /\ AgentStep("get_tools", Outcome(ok))

\* await agent.ainvoke(...) and the printing of the answer
agent_invoke(ok) ==
    /\ agent.pc = "invoke"
    /\ agent' = [agent EXCEPT !.pc = "cleanup"]
    /\ AgentStep("ainvoke", Outcome(ok))

\* The finally of run_*_agent; close() of the analyzer objects, which calls
\* __aexit__ when self.mcp_client is set.
agent_cleanup(ok) ==
    /\ agent.pc = "cleanup"
    /\ agent' = [agent EXCEPT
          !.events = IF agent.client \in FunctionClients \/ agent.mcp_client
                     THEN Append(@, "aexit") ELSE @,
          !.pc = "done"]
    /\ AgentStep("cleanup", Outcome(ok))

-----------------------------------------------------------------------------
(* main() of the Gmail, Drive and Calendar servers *)

\* ensure_authenticated: Gmail and Drive authenticate and then verify with one
\* API call; Calendar authenticates only when the helper has no service yet.
ensure_authenticated(server, svc, authOk, verifyOk) ==
    IF server = "calendar"
    THEN [authenticated |-> svc \/ authOk,
          attempts |-> IF svc THEN 0 ELSE 1,
          service |-> svc \/ authOk]
    ELSE [authenticated |-> authOk /\ verifyOk,
          attempts |-> 1,
          service |-> svc \/ authOk]

\* Mutant: main() gives up when the authentication check fails.
main_result_exit_on_auth_failure(server, svc, skip, authOk, verifyOk) ==
    IF skip
    THEN [serving |-> TRUE, attempts |-> 0, authenticated |-> FALSE,
          printedError |-> FALSE, service |-> svc]
    ELSE LET a == ensure_authenticated(server, svc, authOk, verifyOk)
         IN  [serving |-> a.authenticated, attempts |-> a.attempts,
              authenticated |-> a.authenticated,
              printedError |-> ~a.authenticated, service |-> a.service]

\* main(): parse the arguments, check authentication unless --skip-auth-check,
\* then create the app and run it whatever the check said.
main_result(server, svc, skip, authOk, verifyOk) ==
    IF skip
    THEN [serving |-> TRUE, attempts |-> 0, authenticated |-> FALSE,
          printedError |-> FALSE, service |-> svc]
    ELSE LET a == ensure_authenticated(server, svc, authOk, verifyOk)
         IN  [serving |-> TRUE, attempts |-> a.attempts,
              authenticated |-> a.authenticated,
              printedError |-> ~a.authenticated, service |-> a.service]

main(server, skip, authOk, verifyOk) ==
    /\ ~started[server]
    /\ LET m == main_result(server, service[server], skip, authOk, verifyOk)
       IN  /\ started' = [started EXCEPT ![server] = m.serving]
           /\ service' = [service EXCEPT ![server] = m.service]
           /\ op' = "main"
           /\ req' = [server |-> server, skip_auth_check |-> skip]
           /\ calls' = [i \in 1..m.attempts |->
                           [api |-> "authenticate", pageToken |-> NoToken,
                            outcome |-> IF authOk THEN "ok" ELSE "raises"]]
           /\ resp' = [kind |-> "main", serving |-> m.serving,
                       authenticated |-> m.authenticated,
                       printedError |-> m.printedError, error |-> None]
    /\ UNCHANGED <<mailboxHead, historyFile, labels, parents, calendars, jiraIssue, jiraOut,
                   tokenFile, paging, eventLoop, agent>>

\* authenticate_gmail / authenticate_drive / authenticate_calendar: the tool
\* that runs ensure_authenticated on request.
authenticate_tool(server, authOk, verifyOk) ==
    /\ started[server]
    /\ LET a == ensure_authenticated(server, service[server], authOk, verifyOk)
       IN  /\ service' = [service EXCEPT ![server] = a.service]
           /\ op' = "authenticate_tool"
           /\ req' = [server |-> server, skip_auth_check |-> FALSE]
           /\ calls' = [i \in 1..a.attempts |->
                           [api |-> "authenticate", pageToken |-> NoToken,
                            outcome |-> IF authOk THEN "ok" ELSE "raises"]]
           /\ resp' = [kind |-> "AuthenticationResponse",
                       authenticated |-> a.authenticated,
                       error |-> IF a.authenticated THEN None
                                 ELSE "Authentication failed"]
    /\ UNCHANGED <<started, mailboxHead, historyFile, labels, parents, calendars, jiraIssue,
                   jiraOut, tokenFile, paging, eventLoop, agent>>

-----------------------------------------------------------------------------
(* Drive: move_drive_file.  The modelled file's parents are Drive's state;   *)
(* files.update removes the parents named in removeParents and adds the one *)
(* named in addParents.                                                     *)

Folders == {"folderA", "folderB", "folderC"}

FilesUpdate(ps, u) ==
    (IF u.removeParentsGiven THEN ps \ u.removeParents ELSE ps) \cup {u.addParents}

\* Mutant: the previous parents are never removed.
move_file_update_keeps_parents(previous_parents, new_parent_id, remove_parents) ==
    [api |-> "files.update", addParents |-> new_parent_id,
     removeParents |-> {}, removeParentsGiven |-> FALSE]

\* addParents=new_parent_id, removeParents=previous_parents if remove_parents else None
move_file_update(previous_parents, new_parent_id, remove_parents) ==
    [api |-> "files.update", addParents |-> new_parent_id,
     removeParents |-> IF remove_parents THEN previous_parents ELSE {},
     removeParentsGiven |-> remove_parents]

GoogleDriveHelper_move_file(svc, authOk, ps, new_parent_id, remove_parents, getOk, updateOk) ==
    IF AuthFails(svc, authOk)
    THEN [file |-> None, error |-> "Failed to authenticate with Google Drive",
          calls |-> <<>>, parents |-> ps]
    ELSE LET get == [api |-> "files.get", parents |-> ps,
                     outcome |-> IF getOk THEN "ok" ELSE "raises"]
             u == move_file_update(ps, new_parent_id, remove_parents)
             upd == [api |-> u.api, addParents |-> u.addParents,
                     removeParents |-> u.removeParents,
                     removeParentsGiven |-> u.removeParentsGiven,
                     outcome |-> IF updateOk THEN "ok" ELSE "raises"]
         IN  IF ~getOk
             THEN [file |-> None, error |-> "Error moving file",
                   calls |-> <<get>>, parents |-> ps]
             ELSE IF ~updateOk
             THEN [file |-> None, error |-> "Error moving file",
                   calls |-> <<get, upd>>, parents |-> ps]
             ELSE [file |-> [parents |-> FilesUpdate(ps, u)], error |-> None,
                   calls |-> <<get, upd>>, parents |-> FilesUpdate(ps, u)]

\* Mutant: the handler passes keep_previous_parents on as remove_parents.
move_drive_file_result_flag_not_negated(svc, ps, r, authOk, getOk, updateOk) ==
    GoogleDriveHelper_move_file(svc, authOk, ps, r.destination_folder_id,
                                r.keep_previous_parents, getOk, updateOk)

move_drive_file_result(svc, ps, r, authOk, getOk, updateOk) ==
    GoogleDriveHelper_move_file(svc, authOk, ps, r.destination_folder_id,
                                ~r.keep_previous_parents, getOk, updateOk)

move_drive_file(dest, keep, authOk, getOk, updateOk) ==
    /\ started["drive"]
    /\ LET r == [destination_folder_id |-> dest, keep_previous_parents |-> keep]
           result == move_drive_file_result(service["drive"], parents, r,
                                            authOk, getOk, updateOk)
       IN  /\ op' = "move_drive_file"
           /\ req' = r
           /\ calls' = result.calls
           /\ resp' = [kind |-> "MoveFileResponse",
                       file |-> IF result.error # None THEN None ELSE result.file,
                       error |-> result.error]
           /\ parents' = result.parents
           /\ service' = [service EXCEPT !["drive"] =
                             ServiceAfter(service["drive"], authOk)]
    /\ UNCHANGED <<started, mailboxHead, historyFile, labels, calendars, jiraIssue, jiraOut,
                   tokenFile, paging, eventLoop, agent>>

\* Drive changes under the server: another client adds the file to a folder
\* or removes it from one.
DriveChange(folder) ==
    /\ parents' = IF folder \in parents THEN parents \ {folder}
                  ELSE parents \cup {folder}
    /\ op' = "DriveChange"
    /\ req' = [server |-> "drive"]
    /\ calls' = <<>>
    /\ resp' = [kind |-> "none", error |-> None]
    /\ UNCHANGED <<started, service, mailboxHead, historyFile, labels, calendars, jiraIssue,
                   jiraOut, tokenFile, paging, eventLoop, agent>>

-----------------------------------------------------------------------------
(* Calendar: delete_calendar and create_calendar.  Calendar ids are          *)
(* sequences of characters, so that lower() is computed, not assumed.       *)

Primary == <<"p", "r", "i", "m", "a", "r", "y">>

PrimaryUpper == <<"P", "R", "I", "M", "A", "R", "Y">>

PrimaryMixed == <<"P", "r", "i", "m", "a", "r", "y">>

TeamCalendar == <<"T", "e", "a", "m">>

TeamCalendarLower == <<"t", "e", "a", "m">>

Holidays == <<"H", "o", "l", "i", "d", "a", "y", "s">>

OtherCalendars == {TeamCalendar, TeamCalendarLower, Holidays}

CalendarIds == {Primary, PrimaryUpper, PrimaryMixed} \cup OtherCalendars

LowerChar(c) ==
    CASE c = "P" -> "p" [] c = "R" -> "r" [] c = "I" -> "i" [] c = "M" -> "m"
      [] c = "A" -> "a" [] c = "Y" -> "y" [] c = "T" -> "t" [] c = "E" -> "e"
      [] OTHER -> c

\* Mutant: the id is compared as given, without lower().
Lower_identity(id) == id

\* str.lower()
Lower(id) == [i \in DOMAIN id |-> LowerChar(id[i])]

GoogleCalendarHelper_delete_calendar(svc, authOk, cals, calendar_id, apiOk) ==
    IF AuthFails(svc, authOk)
    THEN [success |-> FALSE, error |-> "Failed to authenticate with Google Calendar",
          calls |-> <<>>, calendars |-> cals]
    ELSE IF Lower(calendar_id) = Primary
    THEN [success |-> FALSE, error |-> "Cannot delete primary calendar",
          calls |-> <<>>, calendars |-> cals]
    ELSE IF apiOk /\ calendar_id \in cals
    THEN [success |-> TRUE, error |-> None,
          calls |-> <<[api |-> "calendars.delete", calendarId |-> calendar_id,
                       outcome |-> "ok"]>>,
          calendars |-> cals \ {calendar_id}]
    ELSE [success |-> FALSE, error |-> "Error deleting calendar",
          calls |-> <<[api |-> "calendars.delete", calendarId |-> calendar_id,
                       outcome |-> "raises"]>>,
          calendars |-> cals]

delete_calendar(calendar_id, authOk, apiOk) ==
    /\ started["calendar"]
    /\ LET result == GoogleCalendarHelper_delete_calendar(
                         service["calendar"], authOk, calendars, calendar_id, apiOk)
       IN  /\ op' = "delete_calendar"
           /\ req' = [calendar_id |-> calendar_id]
           /\ calls' = result.calls
           /\ resp' = [kind |-> "DeleteCalendarResponse",
                       success |-> result.error = None,
                       error |-> result.error]
           /\ calendars' = result.calendars
           /\ service' = [service EXCEPT !["calendar"] =
                             ServiceAfter(service["calendar"], authOk)]
    /\ UNCHANGED <<started, mailboxHead, historyFile, labels, parents, jiraIssue, jiraOut,
                   tokenFile, paging, eventLoop, agent>>

\* calendars().insert(body): the service picks the id of the new calendar.
GoogleCalendarHelper_create_calendar(svc, authOk, cals, newId, apiOk) ==
    IF AuthFails(svc, authOk)
    THEN [calendar |-> None, error |-> "Failed to authenticate with Google Calendar",
          calls |-> <<>>, calendars |-> cals]
    ELSE IF apiOk
    THEN [calendar |-> [id |-> newId], error |-> None,
          calls |-> <<[api |-> "calendars.insert", calendarId |-> newId,
                       outcome |-> "ok"]>>,
          calendars |-> cals \cup {newId}]
    ELSE [calendar |-> None, error |-> "Error creating calendar",
          calls |-> <<[api |-> "calendars.insert", calendarId |-> newId,
                       outcome |-> "raises"]>>,
          calendars |-> cals]

create_calendar(newId, authOk, apiOk) ==
    /\ started["calendar"]
    /\ newId \notin calendars
    /\ LET result == GoogleCalendarHelper_create_calendar(
                         service["calendar"], authOk, calendars, newId, apiOk)
       IN  /\ op' = "create_calendar"
           /\ req' = [calendar_id |-> newId]
           /\ calls' = result.calls
           /\ resp' = [kind |-> "CalendarResponse",
                       calendar |-> IF result.error # None THEN None
                                    ELSE result.calendar,
                       error |-> result.error]
           /\ calendars' = result.calendars
           /\ service' = [service EXCEPT !["calendar"] =
                             ServiceAfter(service["calendar"], authOk)]
    /\ UNCHANGED <<started, mailboxHead, historyFile, labels, parents, jiraIssue, jiraOut,
                   tokenFile, paging, eventLoop, agent>>

-----------------------------------------------------------------------------

Init ==
    /\ started = [s \in Servers |-> FALSE]
    /\ service = [s \in Servers |-> FALSE]
    /\ mailboxHead = 1
    /\ historyFile = NoFile
    /\ labels = <<>>
    /\ parents = {"folderA"}
    /\ calendars = {Primary}
    /\ jiraIssue = [summary |-> "Login fails", description |-> NoDescription]
    /\ op = "init"
    /\ req = [server |-> "none"]
    /\ calls = <<>>
    /\ resp = [kind |-> "none", error |-> None]
    /\ jiraOut = <<>>
    /\ tokenFile = [s \in Servers |-> NoTokenFile]
    /\ paging = NotPaging
    /\ eventLoop = [s \in Servers |-> IdleLoop]
    /\ agent = NoAgent

GmailHistoryNext ==
    \/ \E skip, authOk, verifyOk \in BOOLEAN : main("gmail", skip, authOk, verifyOk)
    \/ MailboxChange
    \/ load_saved_history_id
    \/ \E start \in 0..MaxHistoryId, m \in 1..MaxResults, authOk \in BOOLEAN,
          failAt \in 0..MaxFail, w \in {"ok", "open_fails", "write_fails"} :
          get_gmail_history(start, m, authOk, failAt, w)

SpecGmailHistory == Init /\ [][GmailHistoryNext]_vars

MainNext ==
    \/ \E server \in Servers, skip, authOk, verifyOk \in BOOLEAN :
          main(server, skip, authOk, verifyOk)
    \/ \E server \in Servers, authOk, verifyOk \in BOOLEAN :
          authenticate_tool(server, authOk, verifyOk)

SpecMain == Init /\ [][MainNext]_vars

DriveNext ==
    \/ \E skip, authOk, verifyOk \in BOOLEAN : main("drive", skip, authOk, verifyOk)
    \/ \E folder \in Folders : DriveChange(folder)
    \/ \E dest \in Folders, keep, authOk, getOk, updateOk \in BOOLEAN :
          move_drive_file(dest, keep, authOk, getOk, updateOk)

SpecDrive == Init /\ [][DriveNext]_vars

CalendarNext ==
    \/ \E skip, authOk, verifyOk \in BOOLEAN :
          main("calendar", skip, authOk, verifyOk)
    \/ \E id \in CalendarIds, authOk, apiOk \in BOOLEAN :
          delete_calendar(id, authOk, apiOk)
    \/ \E id \in OtherCalendars, authOk, apiOk \in BOOLEAN :
          create_calendar(id, authOk, apiOk)
    \/ \E authOk, verifyOk \in BOOLEAN :
          authenticate_tool("calendar", authOk, verifyOk)

SpecCalendar == Init /\ [][CalendarNext]_vars

GmailLabelsNext ==
    \/ \E skip, authOk, verifyOk \in BOOLEAN : main("gmail", skip, authOk, verifyOk)
    \/ \E name \in LabelNames, tc \in {None, "#000000"}, bc \in {None, "#ffffff"},
          authOk, apiOk \in BOOLEAN :
          create_gmail_label(name, tc, bc, authOk, apiOk)
    \/ \E r \in UpdateLabelRequests, authOk, listOk, updateOk \in BOOLEAN :
          update_gmail_label(r, authOk, listOk, updateOk)
    \/ \E a \in AddLabelLists, d \in RemoveLabelLists, authOk \in BOOLEAN,
          o \in {"ok", "HttpError", "raises"} :
          modify_gmail_message(a, d, authOk, o)

SpecGmailLabels == Init /\ [][GmailLabelsNext]_vars

\* What Jira answers to the GET: a status code, or the request raises.
JiraAnswers == {"200", "401", "404", "raises"}

\* The edits Jira users make to the issue: the summary, the kind of
\* description, one more top-level block of an ADF description.
JiraFieldEdits ==
    {[jiraIssue EXCEPT !.summary = x] : x \in {"Login fails", "Crash on save"}}
    \cup {[jiraIssue EXCEPT !.description = d] : d \in Descriptions}

JiraEdits ==
    JiraFieldEdits
    \cup {[jiraIssue EXCEPT !.description.content = Append(@, b)] : b \in
             IF jiraIssue.description.kind = "adf"
                /\ Len(jiraIssue.description.content) < MaxBlocks
             THEN Blocks ELSE {}}

\* The environments that use the first name of each variable only.
JiraEnvsFirstNames ==
    {e \in JiraEnvs : /\ e.JIRA_INSTANCE_URL = None
                      /\ e.JIRA_USERNAME = None
                      /\ e.JIRA_API_TOKEN \in {None, "tokenA"}}

\* The Jira server over every issue, under the first-name environments.
JiraNext ==
    \/ \E issue \in JiraEdits : JiraEdit(issue)
    \/ \E env \in JiraEnvsFirstNames, http \in JiraAnswers :
          extract_jira_issue(env, http)
    \/ \E env \in JiraEnvsFirstNames : jira_main(env)

SpecJira == Init /\ [][JiraNext]_vars

\* The Jira server under every environment, over issues without ADF blocks.
JiraEnvNext ==
    \/ \E issue \in JiraFieldEdits : JiraEdit(issue)
    \/ \E env \in JiraEnvs, http \in JiraAnswers : extract_jira_issue(env, http)
    \/ \E env \in JiraEnvs : jira_main(env)

SpecJiraEnv == Init /\ [][JiraEnvNext]_vars

VideoNext ==
    \/ \E r \in TranscriptionRequests, f \in {"none", "clip", "whisper"},
          unlinkOk \in BOOLEAN : transcribe_video(r, f, unlinkOk)
    \/ \E t \in {"", "some transcript"}, apiOk \in BOOLEAN :
          summarize_video_transcript(t, apiOk)
    \/ \E r \in SummarizationRequests, keyPresent \in BOOLEAN :
          summarize_video(r, keyPresent)

\* The Jira and Video servers: the tools that run without a helper object.
ToolsNext ==
    \/ \E issue \in JiraFieldEdits : JiraEdit(issue)
    \/ \E env \in JiraEnvsFirstNames, http \in JiraAnswers :
          extract_jira_issue(env, http)
    \/ VideoNext

SpecTools == Init /\ [][ToolsNext]_vars

\* The helpers live in separate processes with a token file each: a
\* behaviour of SpecAuth follows one of them.
OnlyHelper(server) ==
    \A s \in Servers \ {server} : tokenFile[s] = NoTokenFile /\ ~service[s]

AuthNext ==
    \/ \E server \in Servers, refreshOk, flowOk, buildOk \in BOOLEAN,
          save \in {"ok", "open_fails", "write_fails"} :
          OnlyHelper(server) /\ authenticate(server, refreshOk, flowOk, save, buildOk)
    \/ \E server \in Servers, file \in TokenFiles :
          OnlyHelper(server) /\ TokenFileChange(server, file)

SpecAuth == Init /\ [][AuthNext]_vars

\* get_history page by page, against an API that may or may not stop
\* handing out page tokens.
HistoryLoopNext ==
    \/ \E start \in 1..2, left \in 0..MaxPages \cup {Forever},
          n \in 0..MaxResults, raises \in BOOLEAN :
          n \in PageSizes(left) /\ get_history_first_page(start, left, n, raises)
    \/ \E n \in 0..MaxResults, raises \in BOOLEAN :
          n \in PageSizes(paging.pagesLeft) /\ get_history_next_page(n, raises)
    \/ get_history_return

SpecHistoryLoop == Init /\ [][HistoryLoopNext]_vars

\* The interpreter keeps running the loop: a request that can be made is
\* made, and a request the API is ready to answer is answered.
HistoryLoopFairness ==
    /\ WF_vars(\E n \in 0..MaxResults :
                  n \in PageSizes(paging.pagesLeft)
                  /\ get_history_next_page(n, FALSE))
    /\ WF_vars(get_history_return)

SpecHistoryLoopFair == SpecHistoryLoop /\ HistoryLoopFairness

\* The server processes run apart from each other: a behaviour of
\* SpecEventLoop follows the loop of one of them.
OnlyLoop(server) == \A s \in Servers \ {server} : eventLoop[s] = IdleLoop

EventLoopNext ==
    \/ \E server \in Servers, task \in Tasks :
          \E handler \in Handlers(server) :
              OnlyLoop(server) /\ tool_request(server, task, handler)
    \/ \E server \in Servers, task \in Tasks :
          OnlyLoop(server) /\ handler_step(server, task)

SpecEventLoop == Init /\ [][EventLoopNext]_vars

AgentNext ==
    \/ \E client \in AgentClients, keyPresent \in BOOLEAN :
          agent_start(client, keyPresent)
    \/ \E ok \in BOOLEAN : agent_create_llm(ok)
    \/ \E ok \in BOOLEAN : agent_connect(ok)
    \/ \E ok \in BOOLEAN : agent_get_tools(ok)
    \/ \E ok \in BOOLEAN : agent_invoke(ok)
    \/ \E ok \in BOOLEAN : agent_cleanup(ok)

SpecAgent == Init /\ [][AgentNext]_vars

\* Every server at once.  The servers are separate processes that share no
\* state, so each claim is checked under the specification of its server.
Next ==
    \/ MainNext
    \/ GmailHistoryNext
    \/ GmailLabelsNext
    \/ DriveNext
    \/ CalendarNext
    \/ ToolsNext
    \/ JiraEnvNext
    \/ AuthNext
    \/ HistoryLoopNext
    \/ EventLoopNext
    \/ AgentNext

Spec == Init /\ [][Next]_vars

-----------------------------------------------------------------------------
(* Claims *)

IsHistoryCall == op = "get_gmail_history"

\* 'equal to primary in any letter case', stated without the code's lower()
Lower_ascii(id) ==
    [i \in DOMAIN id |->
        IF id[i] \in {"P", "p"} THEN "p"
        ELSE IF id[i] \in {"R", "r"} THEN "r"
        ELSE IF id[i] \in {"I", "i"} THEN "i"
        ELSE IF id[i] \in {"M", "m"} THEN "m"
        ELSE IF id[i] \in {"A", "a"} THEN "a"
        ELSE IF id[i] \in {"Y", "y"} THEN "y"
        ELSE id[i]]

AuthFailedBeforeCall == resp.error = "Failed to authenticate with Gmail"

HistoryListCalls == Cardinality(CallsTo(calls, "users.history.list"))

\* C2 (as claimed): whenever get_gmail_history returns error=None with a
\* non-empty latest_history_id L, the history-id file holds exactly L
\* afterwards, so that load_saved_history_id returns L.
C2_FileHoldsLatestId ==
    (IsHistoryCall /\ resp.error = None /\ resp.latest_history_id # NoId)
        => /\ historyFile = [exists |-> TRUE, text |-> resp.latest_history_id]
           /\ load_history_id(historyFile).history_id = resp.latest_history_id

C4_AtMostMaxResults ==
    IsHistoryCall => Len(resp.history_records) <= req.max_results

\* C5: main() of the Gmail, Drive and Calendar servers starts the server
\* whether the authentication check succeeded or failed, and with
\* --skip-auth-check it makes no authentication attempt first.
C5_ServerAlwaysStarts ==
    op = "main" =>
        /\ resp.serving
        /\ started[req.server]
        /\ (req.skip_auth_check => calls = <<>> /\ ~resp.printedError)
        /\ (~resp.authenticated /\ ~req.skip_auth_check => resp.printedError)

C5_Witness ==
    /\ op = "main" /\ ~req.skip_auth_check /\ ~resp.authenticated
    /\ calls # <<>> /\ resp.serving /\ started[req.server]

C9_PrimaryNeverDeleted ==
    /\ Primary \in calendars
    /\ (op = "delete_calendar" /\ Lower_ascii(req.calendar_id) = Primary) =>
          /\ CallsTo(calls, "calendars.delete") = {}
          /\ ~resp.success
          /\ resp.error # None
          /\ (service["calendar"] => resp.error = "Cannot delete primary calendar")

C9_Witness ==
    /\ op = "delete_calendar" /\ req.calendar_id = PrimaryUpper
    /\ service["calendar"]
    /\ resp.error = "Cannot delete primary calendar"
    /\ TeamCalendar \in calendars

BodyTextColor(b) == IF b.color.present THEN b.color.textColor ELSE None

BodyBackgroundColor(b) == IF b.color.present THEN b.color.backgroundColor ELSE None

\* C7 (as claimed): update_gmail_label sends a body that carries, for every
\* property, the requested value when the request sets it and the existing
\* label's value when it does not; if no label has the given id it answers
\* 'Label with ID ... not found' and sends no update.
C7_UpdateOnlySpecifiedFields ==
    (op = "update_gmail_label" /\ calls # <<>> /\ calls[1].outcome = "ok") =>
        IF req.label_id \notin DOMAIN calls[1].labels
        THEN /\ resp.error = "Label with ID not found"
             /\ CallsTo(calls, "labels.update") = {}
        ELSE LET t == calls[1].labels[req.label_id]
                 b == calls[2].body
             IN  /\ b.name = Given(req.name, t.name)
                 /\ b.messageListVisibility =
                        Given(req.message_list_visibility, t.messageListVisibility)
                 /\ b.labelListVisibility =
                        Given(req.label_list_visibility, t.labelListVisibility)
                 /\ BodyTextColor(b) = Given(req.text_color, BodyTextColor(t))
                 /\ BodyBackgroundColor(b) =
                        Given(req.background_color, BodyBackgroundColor(t))

\* C8: modify_gmail_message with neither add_labels nor remove_labels (each
\* None or empty) answers 'At least one of add_labels or remove_labels must
\* be provided' and makes no Gmail API call; otherwise the body of the modify
\* request holds addLabelIds / removeLabelIds exactly for the non-empty lists.
C8_ModifyRequiresLabels ==
    op = "modify_gmail_message" =>
        LET addGiven == ~req.add_labels.isNone /\ Len(req.add_labels.items) > 0
            removeGiven == ~req.remove_labels.isNone
                           /\ Len(req.remove_labels.items) > 0
        IN  IF ~addGiven /\ ~removeGiven
            THEN /\ resp.error =
                       "At least one of add_labels or remove_labels must be provided"
                 /\ resp.message = None
                 /\ calls = <<>>
            ELSE /\ resp.error #
                       "At least one of add_labels or remove_labels must be provided"
                 /\ \A i \in 1..Len(calls) :
                       /\ calls[i].api = "messages.modify"
                       /\ ("addLabelIds" \in calls[i].body.keys) = addGiven
                       /\ ("removeLabelIds" \in calls[i].body.keys) = removeGiven
                       /\ addGiven => calls[i].body.addLabelIds = req.add_labels.items
                       /\ removeGiven =>
                              calls[i].body.removeLabelIds = req.remove_labels.items
                 /\ (resp.error = None => Len(calls) = 1)

C8_Witness ==
    /\ op = "modify_gmail_message"
    /\ req.add_labels = List(<<"STARRED">>) /\ req.remove_labels = List(<<>>)
    /\ resp.error = None
    /\ calls[1].body.keys = {"addLabelIds"}

ToolHandlers ==
    {"get_gmail_history", "load_saved_history_id", "create_gmail_label",
     "update_gmail_label", "modify_gmail_message", "authenticate_tool",
     "move_drive_file", "delete_calendar", "create_calendar",
     "extract_jira_issue", "transcribe_video", "summarize_video_transcript",
     "summarize_video"}

\* The payload field of a response object holds its empty default.
PayloadIsDefault(r) ==
    CASE r.kind = "HistoryResponse" ->
            r.history_records = <<>> /\ r.latest_history_id = NoId
      [] r.kind = "LoadHistoryIdResponse" -> r.history_id = NoId
      [] r.kind = "LabelResponse" -> r.label = None
      [] r.kind = "MessageResponse" -> r.message = None
      [] r.kind = "AuthenticationResponse" -> ~r.authenticated
      [] r.kind = "MoveFileResponse" -> r.file = None
      [] r.kind = "DeleteCalendarResponse" -> ~r.success
      [] r.kind = "CalendarResponse" -> r.calendar = None
      [] r.kind = "JiraIssueResponse" -> r.summary = "" /\ r.description = <<>>
      [] r.kind = "VideoTranscriptionResponse" -> r.transcript = ""
      [] r.kind = "VideoSummarizationResponse" -> r.summary = ""
      [] OTHER -> FALSE

\* C1 (as claimed): whenever a helper or vendor call raises inside a tool
\* handler, the handler does not raise but returns a response object whose
\* error field is set and whose payload field holds its empty default.
C1_UniformErrorHandling ==
    (op \in ToolHandlers /\ AnyRaised(calls)) =>
        /\ resp.kind \notin {"raised", "str"}
        /\ resp.error # None
        /\ PayloadIsDefault(resp)

\* The description text the claim promises for an ADF document: the text
\* nodes of each top-level paragraph, each paragraph followed by a newline.
RECURSIVE ParagraphsText(_)
ParagraphsText(blocks) ==
    IF blocks = <<>> THEN <<>>
    ELSE (IF Head(blocks).type = "paragraph"
          THEN NodeTexts(Head(blocks).content) \o <<Newline>> ELSE <<>>)
         \o ParagraphsText(Tail(blocks))

\* C10 (as claimed): for every issue for which Jira answers HTTP 200 (also
\* one with no description, a plain-string description or an ADF
\* description) extract_jira_issue returns the summary and the description
\* text with error=None; for ADF the text is that of the top-level
\* paragraphs, each followed by a newline.
C10_ExtractsSummaryAndDescription ==
    (op = "extract_jira_issue" /\ calls # <<>> /\ calls[1].status = "200"
        /\ jiraIssue.description.kind \in {"missing", "null", "string", "adf"}) =>
        /\ resp.error = None
        /\ resp.summary = jiraIssue.summary
        /\ resp.description =
              CASE jiraIssue.description.kind = "string" -> jiraIssue.description.text
                [] jiraIssue.description.kind = "adf" ->
                      ParagraphsText(jiraIssue.description.content)
                [] OTHER -> <<>>

\* The variables the claim counts as missing: a credential neither of whose
\* accepted names holds a non-empty value.
Unset(v) == v = None \/ v = ""

MissingFromEnvironment(env) ==
    (IF Unset(env.JIRA_BASE_URL) /\ Unset(env.JIRA_INSTANCE_URL)
     THEN <<"JIRA_BASE_URL/JIRA_INSTANCE_URL">> ELSE <<>>)
    \o (IF Unset(env.JIRA_EMAIL) /\ Unset(env.JIRA_USERNAME)
        THEN <<"JIRA_EMAIL/JIRA_USERNAME">> ELSE <<>>)
    \o (IF Unset(env.JIRA_API_TOKEN) THEN <<"JIRA_API_TOKEN">> ELSE <<>>)

NamesText(names) ==
    CASE names = <<>> -> ""
      [] Len(names) = 1 -> names[1]
      [] Len(names) = 2 -> names[1] \o ", " \o names[2]
      [] OTHER -> names[1] \o ", " \o names[2] \o ", " \o names[3]

\* C11: extract_jira_issue with the base URL, the user or the token missing
\* from the environment sends no HTTP request and returns an empty summary
\* and description with an error naming exactly the missing variables; a
\* status other than 200 gives an error containing the status code and an
\* empty summary and description.
C11_MissingCredentialsAndHttpErrors ==
    op = "extract_jira_issue" =>
        LET missing == MissingFromEnvironment(req.env)
        IN  /\ missing # <<>> =>
                /\ CallsTo(calls, "requests.get") = {}
                /\ resp.summary = "" /\ resp.description = <<>>
                /\ resp.error =
                      "Jira credentials not found in environment variables: "
                          \o NamesText(missing)
            /\ (missing = <<>> /\ req.answer \notin {"200", "raises"}) =>
                /\ Cardinality(CallsTo(calls, "requests.get")) = 1
                /\ resp.summary = "" /\ resp.description = <<>>
                /\ resp.error = "Failed to fetch Jira issue: " \o req.answer
                                    \o " - " \o ResponseText(req.answer)

\* Two credentials are missing, one of them under both of its names.
C11_Witness ==
    /\ op = "extract_jira_issue"
    /\ req.env.JIRA_BASE_URL = None /\ req.env.JIRA_INSTANCE_URL # None
    /\ Len(MissingFromEnvironment(req.env)) = 2
    /\ resp.error # None

\* Jira answers 404 to a request sent with complete credentials.
C11_WitnessStatus ==
    /\ op = "extract_jira_issue"
    /\ MissingFromEnvironment(req.env) = <<>>
    /\ req.answer = "404"
    /\ resp.error # None

\* C12: the value of the API token never reaches the output of the Jira
\* server: a run with another (non-empty) token value, the environment and
\* Jira's answer being the same, prints the same lines and returns the same
\* response.
C12_TokenValueNotRevealed ==
    /\ op = "extract_jira_issue" =>
          \A t \in {"tokenA", "tokenB"} :
              Truthy(req.env.JIRA_API_TOKEN) =>
                  LET other == extract_jira_issue_result(
                                   [req.env EXCEPT !.JIRA_API_TOKEN = t],
                                   req.issue_key, jiraIssue, req.answer)
                  IN  other.console = jiraOut /\ other.resp = resp
    /\ op = "jira_main" =>
          \A t \in {"tokenA", "tokenB"} :
              Truthy(req.env.JIRA_API_TOKEN) =>
                  jira_main_console([req.env EXCEPT !.JIRA_API_TOKEN = t]) = jiraOut

\* A request was sent with tokenB in its basic-auth pair and Jira refused it.
C12_Witness ==
    /\ op = "extract_jira_issue"
    /\ req.env.JIRA_API_TOKEN = "tokenB"
    /\ req.answer = "401"
    /\ calls # <<>> /\ calls[1].auth[2] = "tokenB"
    /\ jiraOut # <<>>

\* What the last authenticate() did, read off its calls.
Raised(api) == \E i \in CallsTo(calls, api) : calls[i].outcome = "raises"

Succeeded(api) == \E i \in CallsTo(calls, api) : calls[i].outcome = "ok"

TokenFileOpenedForWriting == CallsTo(calls, "open(token_path, 'w')") # {}

\* The parts of the claim that do not concern the reasons for False: an
\* expired credential with a refresh token is refreshed without the
\* interactive flow; a failed refresh is followed by the flow; the token
\* file is opened for writing only after a refresh or a flow succeeded, and
\* loaded credentials that are valid leave the file as it was.
RefreshAndRewrite ==
    LET file == req.token_file
    IN  /\ (file.loadable /\ file.expired /\ file.refresh_token) =>
              /\ CallsTo(calls, "creds.refresh") # {}
              /\ Succeeded("creds.refresh") =>
                    CallsTo(calls, "flow.run_local_server") = {}
              /\ Raised("creds.refresh") =>
                    CallsTo(calls, "flow.run_local_server") # {}
        /\ TokenFileOpenedForWriting =>
              Succeeded("creds.refresh") \/ Succeeded("flow.run_local_server")
        /\ (file.loadable /\ file.valid) =>
              /\ ~TokenFileOpenedForWriting
              /\ tokenFile[req.server] = file

\* C13 (as claimed): ... and authenticate returns False only when the token
\* file cannot be loaded, the OAuth flow fails, or saving the token fails.
C13_FalseOnlyForLoadFlowSave ==
    op = "authenticate" =>
        /\ RefreshAndRewrite
        /\ ~resp.value =>
              \/ Raised("Credentials.from_authorized_user_file")
              \/ Raised("flow.run_local_server")
              \/ Raised("open(token_path, 'w')") \/ Raised("token.write")

\* C13 (amended): authenticate() refreshes expired credentials that have a
\* refresh token without user interaction, falls through to the interactive
\* flow when the refresh fails, and returns False only when the token file
\* cannot be loaded, the flow fails, saving the token fails, or building the
\* service fails.  The token file is rewritten only after a refresh or a
\* flow, never when the loaded credentials were valid.
C13_FalseAlsoWhenBuildFails ==
    op = "authenticate" =>
        /\ RefreshAndRewrite
        /\ ~resp.value =>
              \/ Raised("Credentials.from_authorized_user_file")
              \/ Raised("flow.run_local_server")
              \/ Raised("open(token_path, 'w')") \/ Raised("token.write")
              \/ Raised("build")

\* A refresh failed, the interactive flow took over and authenticate
\* succeeded with the token file rewritten.
C13_Witness ==
    /\ op = "authenticate"
    /\ Raised("creds.refresh")
    /\ Succeeded("flow.run_local_server")
    /\ resp.value
    /\ tokenFile[req.server] = FreshCredentials
    /\ tokenFile[req.server] # req.token_file

\* get_history has returned its records (not an error).
HistoryReturned == paging.pc = "done" /\ paging.error = None

\* What holds at every point of a get_history call: the records held are
\* the in-order concatenation of the pages served so far; the loop goes on
\* exactly while the last page carried a nextPageToken, so a listing is
\* returned only after a page without one, with every page in it.
C14_AllPagesInOrder ==
    /\ paging.pc = "loop" => paging.history = paging.served
    /\ HistoryReturned =>
          /\ paging.next_page_token = NoToken
          /\ paging.pagesLeft = 0
          /\ paging.history = paging.served
    /\ (op = "get_history_return") =>
          resp.history = paging.served /\ HistoryReturned
    /\ (paging.pc = "loop" /\ paging.next_page_token # NoToken) =>
          ~ENABLED get_history_return

InHandler(server, task) == eventLoop[server].tasks[task].status = "running"

\* C15: within one server process tool invocations never interleave: while
\* an invocation is between entry and return, every call made in that
\* process is made by it, so a handler's sequence of vendor calls and file
\* writes (get_gmail_history's fetch then save_history_id, update_event's
\* get then update, move_file's get then update) is atomic with respect to
\* the other tool calls the process serves.
C15_HandlersNeverInterleave ==
    [][\A server \in Servers, task \in Tasks :
          (InHandler(server, task) /\ op' = "handler_step" /\ req'.server = server)
              => req'.task = task]_vars

\* get_gmail_history has fetched and not yet saved while another
\* invocation of the same process is waiting for the loop.
C15_Witness ==
    /\ InHandler("gmail", 1)
    /\ eventLoop["gmail"].tasks[1].handler = "get_gmail_history"
    /\ eventLoop["gmail"].tasks[1].made = 1
    /\ eventLoop["gmail"].tasks[2].status = "pending"

\* How often an event occurs among the connection events of the current
\* client object.
Count(events, e) == Cardinality({i \in 1..Len(events) : events[i] = e})

\* C16 (as claimed): in every agent client each __aenter__ that completes
\* is followed by exactly one __aexit__, whether the agent run succeeds or
\* fails; __aexit__ is never called on a client whose __aenter__ did not
\* complete; and no connection is opened when OPENAI_API_KEY is missing.
C16_CleanupExactlyOncePerConnect ==
    /\ Count(agent.events, "aexit") <= Count(agent.events, "aenter_ok")
    /\ agent.pc = "done" =>
          Count(agent.events, "aexit") = Count(agent.events, "aenter_ok")
    /\ ~agent.key => agent.events = <<>>

=============================================================================
